---- MODULE Spec2Model ----
(***************************************************************************)
(* Model of discord-manager-rust (src/src/main.rs): token loading, the     *)
(* startup validation request, the main menu loop, the guild listing and   *)
(* the per-guild confirmation loop with its DELETE requests.               *)
(*                                                                         *)
(* Strings that the program trims (the token, the console lines) are       *)
(* sequences of one-character strings; guild ids and names, which the      *)
(* program only copies and compares, are TLA+ strings.                     *)
(***************************************************************************)
EXTENDS Integers, Sequences, FiniteSets, TLC

VARIABLES
    args,       \* std::env::args().nth(1): [present, text]
    tokenFile,  \* std::fs::read_to_string("token.txt"): [ok, text]
    token,      \* main's `token` after trimming
    pc,         \* where main is: Start, Validating, MainMenu, ListingGuilds,
                \* ConfirmingGuild, Leaving, Exited
    input,      \* the `input` buffer filled by the last read_line: [ok, buf]
    response,   \* the result of the last `.send().await`: [kind, status, body]
    guilds,     \* the Vec<Guild> of the current (or last) pass
    idx,        \* position of the `for guild in guilds` loop, 1-based
    answers,    \* input.trim() read for each guild of the pass so far
    requests,   \* every HTTP request sent so far, in order
    lastOut,    \* the last line printed or logged, the prompts aside
    exitCode    \* process exit status: <<>> while running, <<code>> once exited

vars == <<args, tokenFile, token, pc, input, response, guilds, idx, answers,
          requests, lastOut, exitCode>>

----------------------------------------------------------------------------
(* Bounds *)

MaxGuilds == 2      \* longest JSON array the listing returns

MaxRequests == 4    \* no new request is sent once the log is this long

----------------------------------------------------------------------------
(* Strings and trimming *)

Whitespace == {" ", "\n", "\t"}

RECURSIVE TrimStart(_)
TrimStart(s) ==
    IF s = <<>> THEN <<>>
    ELSE IF Head(s) \in Whitespace THEN TrimStart(Tail(s))
    ELSE s

RECURSIVE TrimEnd(_)
TrimEnd(s) ==
    IF s = <<>> THEN <<>>
    ELSE IF s[Len(s)] \in Whitespace THEN TrimEnd(SubSeq(s, 1, Len(s) - 1))
    ELSE s

\* str::trim
Trim(s) == TrimEnd(TrimStart(s))

----------------------------------------------------------------------------
(* HTTP *)

NO_CONTENT == 204

\* StatusCode::is_success
is_success(status) == status >= 200 /\ status <= 299

Statuses == {200, 204, 401}

\* A JSON field of an object: a string, a value of another type, or absent.
StrField(s) == [tag |-> "str", s |-> s]
NonStrField == [tag |-> "nonstr", s |-> ""]
AbsentField == [tag |-> "absent", s |-> ""]

\* A JSON value of the listing array: an object, or something else.
JsonObject(id, name) == [tag |-> "object", id |-> id, name |-> name]
JsonOther == [tag |-> "other", id |-> AbsentField, name |-> AbsentField]

JsonValues ==
    { JsonObject(StrField("1"), StrField("G1")),
      JsonObject(StrField("2"), StrField("G2")),
      JsonObject(AbsentField, NonStrField),
      JsonOther }

RECURSIVE SeqsUpTo(_, _)
SeqsUpTo(S, n) ==
    IF n = 0 THEN {<<>>}
    ELSE LET shorter == SeqsUpTo(S, n - 1)
         IN  shorter \cup {Append(q, x) : q \in shorter, x \in S}

\* A response body: a JSON array, or anything that is not one.
ArrayBody(items) == [tag |-> "array", items |-> items]
OtherBody == [tag |-> "other", items |-> <<>>]

ListingBodies == {ArrayBody(a) : a \in SeqsUpTo(JsonValues, MaxGuilds)} \cup {OtherBody}
PlainBodies == {OtherBody}

NoResponse == [kind |-> "none", status |-> 0, body |-> OtherBody]
TransportError == [kind |-> "err", status |-> 0, body |-> OtherBody]
HttpResponse(status, body) == [kind |-> "ok", status |-> status, body |-> body]

Responses(bodies) ==
    {HttpResponse(s, b) : s \in Statuses, b \in bodies} \cup {TransportError}

ValidateRequest == [method |-> "GET", path |-> "/users/@me", guild_id |-> ""]
\* Mutant: the listing asks the validation endpoint again.
ListRequest_Revalidates == [method |-> "GET", path |-> "/users/@me", guild_id |-> ""]

ListRequest == [method |-> "GET", path |-> "/users/@me/guilds", guild_id |-> ""]
LeaveRequest(guild_id) ==
    [method |-> "DELETE", path |-> "/users/@me/guilds/{}", guild_id |-> guild_id]

----------------------------------------------------------------------------
(* The three request functions, as functions of the response received *)

\* Mutant: any response, whatever its status, validates the token.
check_discord_token_AnyStatus(r) == r.kind = "ok"

check_discord_token(r) == r.kind = "ok" /\ is_success(r.status)

Guild(id, name) == [id |-> id, name |-> name]

\* serde_json: value["key"].as_str().unwrap_or_default()
FieldStr(v, f) ==
    IF v.tag = "object" /\ v[f].tag = "str" THEN v[f].s ELSE ""

\* response.json::<Vec<Value>>().await.unwrap_or_default()
JsonVec(body) == IF body.tag = "array" THEN body.items ELSE <<>>

\* Mutant: the body is parsed whatever the status.
get_guilds_IgnoresStatus(r) ==
    IF r.kind = "ok"
    THEN LET json == JsonVec(r.body)
         IN  [i \in 1..Len(json) |-> Guild(FieldStr(json[i], "id"), FieldStr(json[i], "name"))]
    ELSE <<>>

\* Mutant: an element without a string id is dropped.
get_guilds_DropsIncomplete(r) ==
    IF r.kind = "ok" /\ is_success(r.status)
    THEN LET json == SelectSeq(JsonVec(r.body),
                               LAMBDA v : v.tag = "object" /\ v.id.tag = "str")
         IN  [i \in 1..Len(json) |-> Guild(FieldStr(json[i], "id"), FieldStr(json[i], "name"))]
    ELSE <<>>

get_guilds(r) ==
    IF r.kind = "ok" /\ is_success(r.status)
    THEN LET json == JsonVec(r.body)
         IN  [i \in 1..Len(json) |-> Guild(FieldStr(json[i], "id"), FieldStr(json[i], "name"))]
    ELSE <<>>

\* Mutant: any 2xx status counts as having left.
leave_guild_AnySuccess(r) == r.kind = "ok" /\ is_success(r.status)

leave_guild(r) == r.kind = "ok" /\ r.status = NO_CONTENT

----------------------------------------------------------------------------
(* Console input *)

NoExit == <<>>

Texts ==
    { <<"1">>, <<"2">>, <<"y">>, <<"n">>, <<" ", "1">>, <<"y", " ">> }

\* What read_line leaves in the buffer: the line with its terminator, nothing
\* at end of input, or an error (which main unwraps).
ReadResults ==
    {[ok |-> TRUE, buf |-> t \o <<"\n">>] : t \in Texts}
        \cup {[ok |-> TRUE, buf |-> <<>>], [ok |-> FALSE, buf |-> <<>>]}

NoInput == [ok |-> TRUE, buf |-> <<>>]

ArgValues ==
    { [present |-> FALSE, text |-> <<>>],
      [present |-> TRUE, text |-> <<" ">>],
      [present |-> TRUE, text |-> <<" ", "a", "b">>] }

FileValues ==
    { [ok |-> FALSE, text |-> <<>>],
      [ok |-> TRUE, text |-> <<"a", "b", "\n">>] }

----------------------------------------------------------------------------
(* main *)

Init ==
    /\ args \in ArgValues
    /\ tokenFile \in FileValues
    /\ token = <<>>
    /\ pc = "Start"
    /\ input = NoInput
    /\ response = NoResponse
    /\ guilds = <<>>
    /\ idx = 0
    /\ answers = <<>>
    /\ requests = <<>>
    /\ lastOut = "None"
    /\ exitCode = NoExit

\* args().nth(1).unwrap_or_else(|| read_to_string("token.txt").unwrap_or_default())
LoadedToken ==
    IF args.present THEN args.text
    ELSE IF tokenFile.ok THEN tokenFile.text ELSE <<>>

\* Mutant: the emptiness test without the trim.
TokenMissing_Untrimmed(t) == t = <<>>

TokenMissing(t) == Trim(t) = <<>>

\* std::process::exit(code) and the return from main
Exit(code) ==
    /\ pc' = "Exited"
    /\ exitCode' = <<code>>

\* main, lines 134-144: load the token, exit if it is empty, otherwise send
\* the validation request.
LoadToken ==
    /\ pc = "Start"
    /\ IF TokenMissing(LoadedToken)
       THEN /\ Exit(1)
            /\ lastOut' = "NoToken"
            /\ UNCHANGED <<token, requests>>
       ELSE /\ token' = Trim(LoadedToken)
            /\ requests' = Append(requests, ValidateRequest)
            /\ pc' = "Validating"
            /\ lastOut' = "Checking"
            /\ UNCHANGED exitCode
    /\ UNCHANGED <<args, tokenFile, input, response, guilds, idx, answers>>

\* main, lines 144-149: the validation response arrives.
CheckTokenDone ==
    /\ pc = "Validating"
    /\ \E r \in Responses(PlainBodies) :
        /\ response' = r
        /\ IF check_discord_token(r)
           THEN /\ pc' = "MainMenu"
                /\ lastOut' = "Initialized"
                /\ UNCHANGED exitCode
           ELSE /\ Exit(1)
                /\ lastOut' = "InvalidToken"
    /\ UNCHANGED <<args, tokenFile, token, input, guilds, idx, answers, requests>>

\* The for loop moves on to the next guild, or the pass is over and the outer
\* loop prints the menu again.  guilds, idx and answers keep the finished pass
\* until the next menu input is handled.
NextGuild ==
    /\ idx' = idx + 1
    /\ pc' = IF idx = Len(guilds) THEN "MainMenu" ELSE "ConfirmingGuild"

\* read_line(&mut input).unwrap() on an Err: the panic ends the process, with
\* the exit status of a Rust panic.
PANIC_EXIT == 101

\* Mutant: the menu matches the buffer without trimming it.
MenuChoice_Untrimmed(buf) ==
    IF buf = <<"1">> THEN "list"
    ELSE IF buf = <<"2">> THEN "exit"
    ELSE "invalid"

\* match input.trim() of the menu loop
MenuChoice(buf) ==
    IF Trim(buf) = <<"1">> THEN "list"
    ELSE IF Trim(buf) = <<"2">> THEN "exit"
    ELSE "invalid"

\* main, lines 152-193: one iteration of the menu loop, up to the listing
\* request being sent.
MenuRead ==
    /\ pc = "MainMenu"
    /\ \E r \in ReadResults :
        /\ input' = r
        /\ IF ~r.ok
           THEN /\ Exit(PANIC_EXIT)
                /\ lastOut' = "Panic"
                /\ UNCHANGED <<requests, response>>
           ELSE LET choice == MenuChoice(r.buf)
                IN  \/ /\ choice = "list"
                       /\ Len(requests) < MaxRequests
                       /\ requests' = Append(requests, ListRequest)
                       /\ response' = NoResponse
                       /\ pc' = "ListingGuilds"
                       /\ lastOut' = "Getting"
                       /\ UNCHANGED exitCode
                    \/ /\ choice = "exit"
                       /\ Exit(0)
                       /\ UNCHANGED <<lastOut, requests, response>>
                    \/ /\ choice = "invalid"
                       /\ lastOut' = "Invalid"
                       /\ UNCHANGED <<pc, exitCode, requests, response>>
    /\ guilds' = <<>>
    /\ idx' = 0
    /\ answers' = <<>>
    /\ UNCHANGED <<args, tokenFile, token>>

\* main, lines 161-169: the listing response arrives.
GetGuildsDone ==
    /\ pc = "ListingGuilds"
    /\ \E r \in Responses(ListingBodies) :
        /\ response' = r
        /\ guilds' = get_guilds(r)
        /\ answers' = <<>>
        /\ IF guilds' = <<>>
           THEN /\ lastOut' = "NoGuilds"
                /\ pc' = "MainMenu"
                /\ idx' = 0
           ELSE /\ lastOut' = "GotGuilds"
                /\ pc' = "ConfirmingGuild"
                /\ idx' = 1
    /\ UNCHANGED <<args, tokenFile, token, input, requests, exitCode>>

\* Mutant: the "y" and "n" arms are swapped.
ConfirmChoice_Swapped(buf) ==
    IF Trim(buf) = <<"n">> THEN "leave"
    ELSE IF Trim(buf) = <<"y">> THEN "skip"
    ELSE "invalid"

\* match input.trim() of the for loop
ConfirmChoice(buf) ==
    IF Trim(buf) = <<"y">> THEN "leave"
    ELSE IF Trim(buf) = <<"n">> THEN "skip"
    ELSE "invalid"

\* main, lines 168-189: one iteration of the for loop, up to the leave
\* request being sent.
ConfirmRead ==
    /\ pc = "ConfirmingGuild"
    /\ \E r \in ReadResults :
        /\ input' = r
        /\ IF ~r.ok
           THEN /\ Exit(PANIC_EXIT)
                /\ lastOut' = "Panic"
                /\ UNCHANGED <<requests, response, idx, answers>>
           ELSE LET choice == ConfirmChoice(r.buf)
                IN  /\ answers' = Append(answers, Trim(r.buf))
                    /\ \/ /\ choice = "leave"
                          /\ Len(requests) < MaxRequests
                          /\ requests' = Append(requests, LeaveRequest(guilds[idx].id))
                          /\ response' = NoResponse
                          /\ pc' = "Leaving"
                          /\ lastOut' = "Leaving"
                          /\ UNCHANGED <<idx, exitCode>>
                       \/ /\ choice = "skip"
                          /\ lastOut' = "Skipped"
                          /\ NextGuild
                          /\ UNCHANGED <<requests, response, exitCode>>
                       \/ /\ choice = "invalid"
                          /\ lastOut' = "Invalid"
                          /\ NextGuild
                          /\ UNCHANGED <<requests, response, exitCode>>
    /\ UNCHANGED <<args, tokenFile, token, guilds>>

\* main, lines 176-180: the leave response arrives.
LeaveDone ==
    /\ pc = "Leaving"
    /\ \E r \in Responses(PlainBodies) :
        /\ response' = r
        /\ lastOut' = IF leave_guild(r) THEN "LeftOk" ELSE "LeftFail"
        /\ NextGuild
    /\ UNCHANGED <<args, tokenFile, token, input, guilds, answers, requests, exitCode>>

Next ==
    \/ LoadToken
    \/ CheckTokenDone
    \/ MenuRead
    \/ GetGuildsDone
    \/ ConfirmRead
    \/ LeaveDone

Spec == Init /\ [][Next]_vars

----------------------------------------------------------------------------
(* Vocabulary of the properties *)

\* The text of a line read, without its terminator.
LineOf(buf) ==
    IF buf # <<>> /\ buf[Len(buf)] = "\n" THEN SubSeq(buf, 1, Len(buf) - 1) ELSE buf

RECURSIVE LastIndexOf(_, _)
LastIndexOf(log, req) ==
    IF log = <<>> THEN 0
    ELSE IF log[Len(log)] = req THEN Len(log)
    ELSE LastIndexOf(SubSeq(log, 1, Len(log) - 1), req)

\* The requests sent since the last listing request.
PassRequests == SubSeq(requests, LastIndexOf(requests, ListRequest) + 1, Len(requests))

RECURSIVE YesRequests(_)
\* The DELETE requests for the guilds answered "y" among the first n, in order.
YesRequests(n) ==
    IF n = 0 THEN <<>>
    ELSE IF answers[n] = <<"y">>
         THEN Append(YesRequests(n - 1), LeaveRequest(guilds[n].id))
         ELSE YesRequests(n - 1)

AllAnswersYesOrNo ==
    \A j \in 1..Len(answers) : answers[j] \in {<<"y">>, <<"n">>}

Failed(r) == r.kind = "err" \/ (r.kind = "ok" /\ ~(r.status \in 200..299))

NonZeroExit == exitCode # <<>> /\ exitCode # <<0>>

\* C1: in a pass in which every guild so far was answered "y" or "n", the
\* requests sent since the listing are exactly one DELETE per guild answered
\* "y", in listing order, whatever the leave responses were, and none for a
\* guild answered "n".
C1_DeletesAreYesAnswers ==
    (guilds # <<>> /\ AllAnswersYesOrNo) => PassRequests = YesRequests(Len(answers))

\* A finished pass over two guilds answered "y" then "n", the leave having
\* failed: one DELETE, for the first guild.
C1_Witness ==
    /\ pc = "MainMenu"
    /\ Len(guilds) = 2
    /\ answers = << <<"y">>, <<"n">> >>
    /\ lastOut = "Skipped"
    /\ response.kind = "ok" /\ response.status = 401
    /\ PassRequests = <<LeaveRequest(guilds[1].id)>>

\* C2: a line other than "y" or "n" at the prompt for guild i prints the
\* invalid-input notice and leaves the session at the prompt for guild i.
C2_RepromptsSameGuild ==
    [][(pc = "ConfirmingGuild" /\ input'.ok /\ Trim(input'.buf) \notin {<<"y">>, <<"n">>})
          => (lastOut' = "Invalid" /\ pc' = "ConfirmingGuild" /\ idx' = idx)]_vars

\* C3: leave_guild reports success exactly when a response arrived and its
\* status is 204.
C3_LeaveTrueIff204 ==
    lastOut \in {"LeftOk", "LeftFail"}
        => (lastOut = "LeftOk" <=> (response.kind = "ok" /\ response.status = 204))

\* A leave answered 200 was reported as failed.
C3_Witness ==
    lastOut = "LeftFail" /\ response.kind = "ok" /\ response.status = 200

\* C4: when the validation fails (a status outside 200..299 or a transport
\* error) the process exits with a non-zero status, only the validation
\* request having been sent, and an exited process takes no further step.
C4_FailedValidationExits ==
    [][/\ (pc = "Validating" /\ Failed(response'))
            => (pc' = "Exited" /\ NonZeroExit' /\ requests' = <<ValidateRequest>>)
       /\ pc # "Exited"]_vars

\* The validation answered 401 and the process exited with status 1.
C4_Witness ==
    /\ pc = "Exited"
    /\ exitCode = <<1>>
    /\ response.kind = "ok" /\ response.status = 401
    /\ requests = <<ValidateRequest>>

\* C5: a credential (the first argument, else the contents of token.txt)
\* that is empty once trimmed ends the process with a non-zero status and no
\* request sent.
C5_EmptyTokenExits ==
    (pc # "Start" /\ Trim(IF args.present THEN args.text ELSE tokenFile.text) = <<>>)
        => (pc = "Exited" /\ NonZeroExit /\ requests = <<>>)

\* A blank argument takes precedence over a usable token.txt.
C5_Witness ==
    /\ pc = "Exited"
    /\ args.present /\ args.text = <<" ">>
    /\ tokenFile.ok /\ Trim(tokenFile.text) # <<>>
    /\ requests = <<>>

\* C6: the guild id of every DELETE request is non-empty.
C6_LeaveIdsNonEmpty ==
    \A k \in 1..Len(requests) :
        requests[k].method = "DELETE" => requests[k].guild_id # ""

\* C7 as stated: at the menu a line other than "1" or "2" keeps the session
\* at the menu with the invalid-input notice and sends nothing.
C7_AsStated ==
    [][(pc = "MainMenu" /\ input'.ok /\ LineOf(input'.buf) \notin {<<"1">>, <<"2">>})
          => (pc' = "MainMenu" /\ lastOut' = "Invalid" /\ requests' = requests)]_vars

\* C7: at the menu a line that, once trimmed, is neither "1" nor "2" keeps
\* the session at the menu with the invalid-input notice and sends nothing;
\* only a line that trims to "1" starts a listing; a line that trims to "2",
\* and no other, ends the process with status 0; an exited process takes no
\* further step.
C7_MenuTransitions ==
    [][/\ pc = "MainMenu" =>
            /\ (input'.ok /\ Trim(input'.buf) \notin {<<"1">>, <<"2">>})
                   => (pc' = "MainMenu" /\ lastOut' = "Invalid" /\ requests' = requests)
            /\ pc' = "ListingGuilds" => (input'.ok /\ Trim(input'.buf) = <<"1">>)
            /\ (input'.ok /\ Trim(input'.buf) = <<"2">>)
                   <=> (pc' = "Exited" /\ exitCode' = <<0>>)
       /\ pc # "Exited"]_vars

\* Before any listing, an invalid line has left the session at the menu.
C7_Witness ==
    /\ pc = "MainMenu"
    /\ lastOut = "Invalid"
    /\ input.buf = <<"y", " ", "\n">>
    /\ requests = <<ValidateRequest>>

ExpectedStr(field) == IF field.tag = "str" THEN field.s ELSE ""

ListingDone == lastOut \in {"GotGuilds", "NoGuilds"}

\* C8: a 2xx listing whose body is an array of N objects yields N guilds in
\* the array's order, each field the object's string or "" when it is absent
\* or no string.
C8_ListingMapsEveryObject ==
    (/\ ListingDone
     /\ response.kind = "ok" /\ response.status \in 200..299
     /\ response.body.tag = "array"
     /\ \A i \in 1..Len(response.body.items) : response.body.items[i].tag = "object")
        => /\ Len(guilds) = Len(response.body.items)
           /\ \A i \in 1..Len(guilds) :
                /\ guilds[i].id = ExpectedStr(response.body.items[i].id)
                /\ guilds[i].name = ExpectedStr(response.body.items[i].name)

\* Two objects, the first without a string id or name, gave two guilds in order.
C8_Witness ==
    /\ lastOut = "GotGuilds"
    /\ response.body.tag = "array"
    /\ Len(response.body.items) = 2
    /\ \A i \in 1..2 : response.body.items[i].tag = "object"
    /\ guilds = <<Guild("", ""), Guild("1", "G1")>>

\* The listing gave no guild: a transport error, a status outside 200..299,
\* or a body with no element.
ListingEmpty(r) == Failed(r) \/ r.body.tag # "array" \/ r.body.items = <<>>

\* C9: whatever made the listing empty, the no-guilds notice is printed and
\* the session is back at the menu with no guild to confirm and no request
\* sent after the listing request.
C9_EmptyListingBackToMenu ==
    (ListingDone /\ ListingEmpty(response))
        => /\ lastOut = "NoGuilds"
           /\ pc \in {"MainMenu", "Exited"}
           /\ guilds = <<>> /\ idx = 0 /\ answers = <<>>
           /\ requests[Len(requests)] = ListRequest

\* A 401 listing with guilds in its body ended at the menu.
C9_Witness ==
    /\ pc = "MainMenu"
    /\ lastOut = "NoGuilds"
    /\ response.kind = "ok" /\ response.status = 401
    /\ response.body.tag = "array" /\ response.body.items # <<>>

\* C10 as stated: every run sends the validation request exactly once.
C10_AsStated ==
    pc = "Exited" => Cardinality({k \in 1..Len(requests) : requests[k] = ValidateRequest}) = 1

\* C10: a run whose credential is not empty sends the validation request
\* first and never again; a run whose credential is empty never sends it.
C10_ValidatedOnceFirst ==
    /\ pc = "Start" => requests = <<>>
    /\ (pc # "Start" /\ Trim(LoadedToken) # <<>>)
          => /\ requests # <<>>
             /\ requests[1] = ValidateRequest
             /\ \A k \in 2..Len(requests) : requests[k] # ValidateRequest
    /\ (pc # "Start" /\ Trim(LoadedToken) = <<>>)
          => \A k \in 1..Len(requests) : requests[k] # ValidateRequest

\* After a leave and a second listing, which failed, the log holds one
\* validation request, the first.
C10_Witness ==
    /\ pc = "MainMenu"
    /\ lastOut = "NoGuilds"
    /\ Failed(response)
    /\ Len(requests) = 4
    /\ requests[1] = ValidateRequest
    /\ requests[3].method = "DELETE"
    /\ requests[4] = ListRequest

====
